---- MODULE Spec2Model ----
(***************************************************************************)
(* Model of datasets/md/companies/parse.py: the crawler of the Moldovan    *)
(* company register (CKAN catalogue -> data.xlsx -> Company rows) and of   *)
(* the register of non-profit organisations (HTML page -> most recent      *)
(* list.xlsx -> Organization rows).                                        *)
(*                                                                         *)
(* Representation.  A Python str is a sequence of one-character strings    *)
(* (a long literal that the code never splits, such as "Directorship", is  *)
(* one symbol of the sequence).  An Optional value is a sequence of length *)
(* 0 (None) or 1 (the value).  Sheets are assumed to carry the columns the *)
(* parsers pop without a default; cells are None or str, the founders cell *)
(* may also be an int (parse.py:87).                                       *)
(***************************************************************************)
EXTENDS Integers, Sequences, FiniteSets, TLC

VARIABLES pc, fetched, exported, emitted, data_url, headers, idx, call

vars == <<pc, fetched, exported, emitted, data_url, headers, idx, call>>

-----------------------------------------------------------------------------
(* Optional values                                                         *)

None == <<>>

Some(x) == <<x>>

IsNone(o) == Len(o) = 0

Val(o) == o[1]

-----------------------------------------------------------------------------
(* Python str methods used by the parsers                                  *)

\* s.startswith(p, i): p occurs in s at (1-based) position i
MatchAt(s, p, i) ==
    /\ i + Len(p) - 1 <= Len(s)
    /\ \A k \in 1..Len(p) : s[i + k - 1] = p[k]

\* p in s
Contains(s, p) == \E i \in 1..(Len(s) + 1) : MatchAt(s, p, i)

\* s.find(p), 1-based; 0 when p does not occur
Find(s, p) ==
    IF Contains(s, p)
    THEN CHOOSE i \in 1..(Len(s) + 1) :
            MatchAt(s, p, i) /\ \A j \in 1..(i - 1) : ~MatchAt(s, p, j)
    ELSE 0

\* s.rfind(p), 1-based; 0 when p does not occur
RFind(s, p) ==
    IF Contains(s, p)
    THEN CHOOSE i \in 1..(Len(s) + 1) :
            MatchAt(s, p, i) /\ \A j \in (i + 1)..(Len(s) + 1) : ~MatchAt(s, p, j)
    ELSE 0

RECURSIVE Split(_, _)
\* s.split(sep): the pieces between the non-overlapping occurrences of sep,
\* scanned from the left; always at least one piece
Split(s, sep) ==
    LET i == Find(s, sep)
    IN  IF i = 0 THEN <<s>>
        ELSE <<SubSeq(s, 1, i - 1)>> \o Split(SubSeq(s, i + Len(sep), Len(s)), sep)

\* s.rsplit(sep, 1): one piece when sep does not occur, else the text before
\* and after its last occurrence
RSplit1(s, sep) ==
    LET i == RFind(s, sep)
    IN  IF i = 0 THEN <<s>>
        ELSE <<SubSeq(s, 1, i - 1), SubSeq(s, i + Len(sep), Len(s))>>

\* s.replace(c, "") for a one-character c
Remove(s, c) == SelectSeq(s, LAMBDA x : x # c)

RECURSIVE LStrip(_)
LStrip(s) == IF Len(s) > 0 /\ Head(s) = " " THEN LStrip(Tail(s)) ELSE s

RECURSIVE RStrip(_)
RStrip(s) ==
    IF Len(s) > 0 /\ s[Len(s)] = " " THEN RStrip(SubSeq(s, 1, Len(s) - 1)) ELSE s

\* s.strip()
Strip(s) == RStrip(LStrip(s))

RECURSIVE Concat(_)
\* the concatenation of a sequence of strings
Concat(ss) == IF Len(ss) = 0 THEN <<>> ELSE Head(ss) \o Concat(Tail(ss))

-----------------------------------------------------------------------------
(* The toolkit: entities, identifiers, the emission sink                   *)

\* context.make(schema): an entity with no id and no property values
Make(schema) ==
    [schema |-> schema, id |-> None, name |-> None, taxNumber |-> None,
     address |-> None, country |-> None, jurisdiction |-> None,
     organization |-> None, director |-> None, asset |-> None,
     owner |-> None, role |-> None]

\* the cleaning entity.add applies to a text value (None when the value is
\* None or blank)
Clean(v) == IF IsNone(v) \/ Strip(Val(v)) = <<>> THEN None ELSE v

KnownCountries == {<<"U", "S">>, <<"M", "D">>, <<"m", "d">>}

\* the cleaning entity.add applies to a country value
CleanCountry(v) ==
    IF IsNone(v) \/ Strip(Val(v)) \notin KnownCountries THEN None ELSE Some(Strip(Val(v)))

\* entity.add(prop, value): a value that cleans to None is dropped
Add(e, prop, v) ==
    LET c == IF prop = "country" THEN CleanCountry(v) ELSE Clean(v)
    IN  IF IsNone(c) THEN e ELSE [e EXCEPT ![prop] = c]

\* entity.add(prop, id) for an entity reference
AddRef(e, prop, id) == IF IsNone(id) THEN e ELSE [e EXCEPT ![prop] = id]

\* entity.has(prop)
Has(e, prop) == ~IsNone(e[prop])

\* context.make_id(*parts): None when every part is None or empty, else a
\* digest of the parts' bytes fed one after the other (the digest is
\* written as the bytes it was fed)
MakeId(parts) ==
    LET bytes == Concat([i \in 1..Len(parts) |->
                           IF IsNone(parts[i]) THEN <<>> ELSE Val(parts[i])])
    IN  IF bytes = <<>> THEN None ELSE Some(<<"sha1:">> \o bytes)

\* context.emit(entity): appends to the output stream
Emit(stream, e) == Append(stream, e)

-----------------------------------------------------------------------------
(* parse_directors                                                         *)

\* lines 60-67: the name and the role of one candidate
DirectorSplit(piece) ==
    LET parts == RSplit1(piece, <<"[">>)
    IN  IF Len(parts) = 2
        THEN [director |-> Strip(parts[1]),
              role |-> Some(Strip(Remove(parts[2], "]")))]
        ELSE [director |-> Strip(piece), role |-> None]

IsNoiseShorter(director) == Len(director) < 2

\* line 68: the noise filter
IsNoise(director) == Len(director) < 3

\* lines 71-81: the two entities of one director
DirectorEntities(company, d) ==
    LET dir   == Add([Make("LegalEntity") EXCEPT
                        !.id = MakeId(<<company.id, Some(d.director)>>)],
                     "name", Some(d.director))
        dship == Add(AddRef(AddRef(
                     [Make("Directorship") EXCEPT
                        !.id = MakeId(<<Some(<<"Directorship">>), company.id,
                                        Some(d.director), d.role>>)],
                     "organization", company.id), "director", dir.id),
                     "role", d.role)
    IN  Emit(Emit(<<>>, dir), dship)

RECURSIVE DirectorsLoop(_, _)
\* lines 56-81: the loop over the candidates
DirectorsLoop(company, pieces) ==
    IF Len(pieces) = 0 THEN <<>>
    ELSE LET d == DirectorSplit(Head(pieces))
         IN  IF IsNoise(d.director)
             THEN DirectorsLoop(company, Tail(pieces))
             ELSE DirectorEntities(company, d) \o DirectorsLoop(company, Tail(pieces))

\* parse_directors(context, company, directors): the entities it emits
parse_directors(company, directors) ==
    IF IsNone(directors) THEN <<>>
    ELSE DirectorsLoop(company, Split(Val(directors), <<"]", ",">>))

-----------------------------------------------------------------------------
(* parse_founders and parse_owners                                         *)

\* lines 91-96 and 116-121: the name of one candidate and the text of its
\* trailing parenthesis
ParenSplit(piece) ==
    LET s == Remove(piece, ")")
    IN  IF Contains(s, <<"(">>)
        THEN [name |-> Strip(RSplit1(s, <<"(">>)[1]),
              extra |-> Some(RSplit1(s, <<"(">>)[2])]
        ELSE [name |-> Strip(s), extra |-> None]

\* lines 97-109: the entities of one founder
FounderEntities(company, f) ==
    LET found == Add([Make("LegalEntity") EXCEPT
                        !.id = MakeId(<<company.id, Some(f.name)>>)],
                     "name", Some(f.name))
        own   == Add(AddRef(AddRef(
                     [Make("Ownership") EXCEPT
                        !.id = MakeId(<<Some(<<"Ownership">>), company.id,
                                        Some(f.name)>>)],
                     "asset", company.id), "owner", found.id),
                     "role", f.extra)
    IN  IF ~Has(found, "name") THEN <<>> ELSE Emit(Emit(<<>>, found), own)

RECURSIVE FoundersLoop(_, _)
\* lines 90-109
FoundersLoop(company, pieces) ==
    IF Len(pieces) = 0 THEN <<>>
    ELSE FounderEntities(company, ParenSplit(Head(pieces)))
            \o FoundersLoop(company, Tail(pieces))

\* parse_founders(context, company, founders).  The cell is
\* [kind |-> "none"], [kind |-> "int", num |-> n] or [kind |-> "str", val |-> s]
parse_founders(company, founders) ==
    IF founders.kind = "none" THEN [emits |-> <<>>, log |-> <<>>]
    ELSE IF founders.kind = "int" THEN [emits |-> <<>>, log |-> <<"info">>]
    ELSE [emits |-> FoundersLoop(company, Split(founders.val, <<")", ",">>)),
          log |-> <<>>]

\* lines 122-137: the entities and the log lines of one beneficial owner
OwnerEntities(company, o) ==
    LET bo  == Add(Add([Make("LegalEntity") EXCEPT
                          !.id = MakeId(<<company.id, Some(o.name)>>)],
                       "name", Some(o.name)), "country", o.extra)
        own == Add(AddRef(AddRef(
                   [Make("Ownership") EXCEPT
                      !.id = MakeId(<<Some(<<"Ownership">>), company.id,
                                      Some(o.name)>>)],
                   "asset", company.id), "owner", bo.id),
                   "role", Some(<<"beneficiarilor efectivi">>))
    IN  [emits |-> IF ~Has(bo, "name") THEN <<>> ELSE Emit(Emit(<<>>, bo), own),
         log   |-> IF ~IsNone(o.extra) /\ ~Has(bo, "country")
                   THEN <<"warning">> ELSE <<>>]

RECURSIVE OwnersLoop(_, _)
\* lines 115-137
OwnersLoop(company, pieces) ==
    IF Len(pieces) = 0 THEN [emits |-> <<>>, log |-> <<>>]
    ELSE LET one  == OwnerEntities(company, ParenSplit(Head(pieces)))
             rest == OwnersLoop(company, Tail(pieces))
         IN  [emits |-> one.emits \o rest.emits, log |-> one.log \o rest.log]

\* parse_owners(context, company, owners)
parse_owners(company, owners) ==
    IF IsNone(owners) THEN [emits |-> <<>>, log |-> <<>>]
    ELSE OwnersLoop(company, Split(Val(owners), <<")", ",">>))

-----------------------------------------------------------------------------
(* parse_company                                                           *)

\* lines 145-148: the identity of a company row
CompanyId(data) ==
    IF ~IsNone(data.idno) THEN Some(<<"oc-companies-md-">> \o Val(data.idno))
    ELSE MakeId(<<data.name, data.address>>)

\* lines 157-163: the properties of the company (the two dates and the
\* legal form are copied from the row and decide nothing)
CompanyEntity(data) ==
    Add(Add(Add(Add([Make("Company") EXCEPT !.id = CompanyId(data)],
        "name", data.name), "taxNumber", data.idno),
        "jurisdiction", Some(<<"m", "d">>)), "address", data.address)

CompanyFirst(company, related) == Emit(<<>>, company) \o related

\* lines 164-168: the order of the emissions of one row
RowEmissions(company, related) == related \o Emit(<<>>, company)

OnIdentityRaise(company) == IF IsNone(company.id) THEN "raise" ELSE "emit"

\* lines 149-156: what parse_company does with the identity it derived
OnIdentity(company) == IF IsNone(company.id) THEN "skip" ELSE "emit"

\* parse_company(context, data): the entities it emits, what it logs and
\* whether it returns
parse_company(data) ==
    LET company == CompanyEntity(data)
        f       == parse_founders(company, data.founders)
        o       == parse_owners(company, data.owners)
        todo    == OnIdentity(company)
    IN  IF todo = "skip"
        THEN [emits |-> <<>>, log |-> <<"error">>, raised |-> FALSE]
        ELSE IF todo = "raise"
        THEN [emits |-> <<>>, log |-> <<>>, raised |-> TRUE]
        ELSE [emits |-> RowEmissions(company,
                            parse_directors(company, data.directors)
                               \o f.emits \o o.emits),
              log |-> f.log \o o.log, raised |-> FALSE]

-----------------------------------------------------------------------------
(* crawl_row                                                               *)

\* line 240: the truth value of the director cell
Truthy(director) == ~IsNone(director) /\ Len(Val(director)) > 0

\* lines 225-238: the organization (legal form, address and dates are
\* copied from the row and decide nothing)
OrganizationEntity(row) ==
    Add(Add(Add([Make("Organization") EXCEPT
                   !.id = MakeId(<<row.tax_number, row.name>>)],
        "name", row.name), "country", Some(<<"m", "d">>)),
        "taxNumber", row.tax_number)

\* crawl_row(context, row): the entities it emits
crawl_row(row) ==
    LET entity       == OrganizationEntity(row)
        dir          == Add([Make("Person") EXCEPT !.id = MakeId(<<row.director>>)],
                            "name", row.director)
        directorship == AddRef(AddRef(
                            [Make("Directorship") EXCEPT
                               !.id = MakeId(<<entity.id, dir.id>>)],
                            "organization", entity.id), "director", dir.id)
    IN  (IF Truthy(row.director) THEN Emit(Emit(<<>>, dir), directorship) ELSE <<>>)
           \o Emit(<<>>, entity)

-----------------------------------------------------------------------------
(* get_most_recent_link                                                    *)

Digits == <<"0", "1", "2", "3", "4", "5", "6", "7", "8", "9">>

IsDigit(c) == \E k \in 1..10 : Digits[k] = c

DigitVal(c) == (CHOOSE k \in 1..10 : Digits[k] = c) - 1

\* int(s) for a string of digits
RECURSIVE ToInt(_)
ToInt(s) ==
    IF Len(s) = 0 THEN 0
    ELSE 10 * ToInt(SubSeq(s, 1, Len(s) - 1)) + DigitVal(s[Len(s)])

\* line 204, first test: the literal marker of the stale link
StaleMarker == <<"1", "7", ".", "0", "6", ".", "2", "0", "2", "4">>

Prefix2019 == <<"r", "e", "s", "o", "u", "r", "c", "e", "s", "/", "2", "0", "1", "9", "-">>

\* line 204, second test: re.search(r"resources/2019-\d{2}", href)
Matches2019(href) ==
    \E i \in 1..Len(href) :
        /\ MatchAt(href, Prefix2019, i)
        /\ i + Len(Prefix2019) + 1 <= Len(href)
        /\ IsDigit(href[i + Len(Prefix2019)])
        /\ IsDigit(href[i + Len(Prefix2019) + 1])

ExcludedNever(href) == FALSE

\* line 204: the known outdated links
Excluded(href) == Contains(href, StaleMarker) \/ Matches2019(href)

\* (\d{4})[.](\d{2})[.](\d{2}) matches at position i
DateAt(href, i) ==
    /\ i + 9 <= Len(href)
    /\ \A k \in {0, 1, 2, 3, 5, 6, 8, 9} : IsDigit(href[i + k])
    /\ href[i + 4] = "."
    /\ href[i + 7] = "."

\* line 207: re.search, the leftmost match (None when there is none)
DateMatch(href) ==
    IF \E i \in 1..Len(href) : DateAt(href, i)
    THEN LET i == CHOOSE i \in 1..Len(href) :
                     DateAt(href, i) /\ \A j \in 1..(i - 1) : ~DateAt(href, j)
         IN  Some(SubSeq(href, i, i + 9))
    ELSE None

IsLeap(y) == y % 4 = 0 /\ (y % 100 # 0 \/ y % 400 = 0)

DaysInMonth(y, m) ==
    IF m = 2 THEN (IF IsLeap(y) THEN 29 ELSE 28)
    ELSE IF m \in {4, 6, 9, 11} THEN 30 ELSE 31

RECURSIVE DaysBeforeMonth(_, _)
DaysBeforeMonth(y, m) ==
    IF m = 1 THEN 0 ELSE DaysBeforeMonth(y, m - 1) + DaysInMonth(y, m - 1)

\* date(y, m, d).toordinal()
Ordinal(y, m, d) ==
    (y - 1) * 365 + ((y - 1) \div 4) - ((y - 1) \div 100) + ((y - 1) \div 400)
      + DaysBeforeMonth(y, m) + d

\* line 209: datetime.strptime(text, "%Y.%m.%d"): midnight of that day, or
\* None for a ValueError (no such day)
Strptime(text) ==
    LET y == ToInt(SubSeq(text, 1, 4))
        m == ToInt(SubSeq(text, 6, 7))
        d == ToInt(SubSeq(text, 9, 10))
    IN  IF y >= 1 /\ m \in 1..12 /\ d >= 1 /\ d <= DaysInMonth(y, m)
        THEN Some([day |-> Ordinal(y, m, d), secs |-> 0])
        ELSE None

\* the order of datetime values
Before(a, b) == a.day < b.day \/ (a.day = b.day /\ a.secs < b.secs)

RecentDays == 30

RecentAlways(now, date) == TRUE

\* line 216: datetime.now() - timedelta(days=30) < date
Recent(now, date) == Before([now EXCEPT !.day = @ - RecentDays], date)

\* lines 196-212: one pass of the loop
ScanLink(href) ==
    IF Excluded(href) THEN [kind |-> "skip"]
    ELSE IF IsNone(DateMatch(href)) THEN [kind |-> "warn"]
    ELSE IF IsNone(Strptime(Val(DateMatch(href)))) THEN [kind |-> "raise"]
    ELSE [kind |-> "dated", date |-> Val(Strptime(Val(DateMatch(href)))),
          href |-> href]

RECURSIVE ScanLinks(_)
\* lines 194-212: dated_links, the warnings, and whether strptime raised
ScanLinks(links) ==
    IF Len(links) = 0 THEN [dated |-> <<>>, log |-> <<>>, raised |-> FALSE]
    ELSE LET one  == ScanLink(Head(links))
             rest == ScanLinks(Tail(links))
         IN  IF one.kind = "raise"
             THEN [dated |-> <<>>, log |-> <<>>, raised |-> TRUE]
             ELSE [dated  |-> (IF one.kind = "dated" THEN <<one>> ELSE <<>>)
                                 \o rest.dated,
                   log    |-> (IF one.kind = "warn" THEN <<"warning">> ELSE <<>>)
                                 \o rest.log,
                   raised |-> rest.raised]

MinLink(dated) ==
    dated[CHOOSE i \in 1..Len(dated) :
            /\ \A j \in 1..Len(dated) : ~Before(dated[j].date, dated[i].date)
            /\ \A j \in 1..(i - 1) : Before(dated[i].date, dated[j].date)]

\* line 214: max(dated_links, key=...), the first of the maximal elements
MaxLink(dated) ==
    dated[CHOOSE i \in 1..Len(dated) :
            /\ \A j \in 1..Len(dated) : ~Before(dated[i].date, dated[j].date)
            /\ \A j \in 1..(i - 1) : Before(dated[j].date, dated[i].date)]

\* the anchors the XPath of lines 191-193 selects (resource links whose href
\* contains ".xlsx")
XlsxLinks(anchors) == SelectSeq(anchors, LAMBDA h : Contains(h, <<".", "x", "l", "s", "x">>))

\* get_most_recent_link(context, doc) at time now: "return" with the href,
\* or the exception it raises
get_most_recent_link(anchors, now) ==
    LET scan == ScanLinks(XlsxLinks(anchors))
    IN  IF scan.raised
        THEN [kind |-> "ValueError", href |-> None, log |-> scan.log]
        ELSE IF Len(scan.dated) = 0
        THEN [kind |-> "ValueError", href |-> None, log |-> scan.log]
        ELSE IF ~Recent(now, MaxLink(scan.dated).date)
        THEN [kind |-> "AssertionError", href |-> None, log |-> scan.log]
        ELSE [kind |-> "return", href |-> Some(MaxLink(scan.dated).href),
              log |-> scan.log]

-----------------------------------------------------------------------------
(* read_ckan                                                               *)

\* A URL is [host, path]; an href attribute is absolute ("abs"), relative
\* to the host ("root"), relative to the page ("rel"), or not there
\* ("missing": anchor.get("href", "") gives "").

\* urljoin(base, href)
UrlJoin(base, href) ==
    IF href.kind = "abs" THEN [host |-> href.host, path |-> href.path]
    ELSE IF href.kind = "root" THEN [host |-> base.host, path |-> href.path]
    ELSE IF href.kind = "rel"
    THEN [host |-> base.host,
          path |-> SubSeq(base.path, 1, Len(base.path) - 1) \o href.path]
    ELSE base

\* lines 33-36: the loop keeps the URL of the last resource anchor
ResourceAnchor(anchors) == anchors[Len(anchors)]

ActionAnchorLast(anchors) == anchors[Len(anchors)]

\* lines 45-46: the loop returns at its first anchor
ActionAnchor(anchors) == anchors[1]

\* read_ckan(context), where url is context.dataset.url, catalog the
\* resource-item anchors of the page at url and resource the anchors in the
\* actions container of the page the catalog leads to
read_ckan(url, catalog, resource) ==
    IF IsNone(url)
    THEN [kind |-> "RuntimeError", fetches |-> <<>>, href |-> None]
    ELSE LET first == [name |-> "dataset.html", url |-> Val(url)]
         IN  IF Len(catalog) = 0
             THEN [kind |-> "RuntimeError", fetches |-> <<first>>, href |-> None]
             ELSE LET resource_url == UrlJoin(Val(url), ResourceAnchor(catalog))
                      second == [name |-> "resource.html", url |-> resource_url]
                  IN  IF Len(resource) = 0
                      THEN [kind |-> "RuntimeError", fetches |-> <<first, second>>,
                            href |-> None]
                      ELSE [kind |-> "return", fetches |-> <<first, second>>,
                            href |-> Some(ActionAnchor(resource))]

-----------------------------------------------------------------------------
(* Bounds and inputs                                                       *)

MaxAnchors == 2

MaxSheetRows == 3

MaxOrgRows == 2

MaxLinks == 2

MaxDirLen == 6

\* the sequences over S of length at most n
SeqsUpTo(S, n) == UNION {[1..k -> S] : k \in 0..n}

CatalogUrl == [host |-> "date.gov.md", path |-> <<"ckan", "dataset", "11736">>]

DatasetUrls == {None, Some(CatalogUrl)}

ResourceHrefs ==
    {[kind |-> "rel", host |-> "", path |-> <<"resource", "r1">>],
     [kind |-> "root", host |-> "", path |-> <<"r2">>],
     [kind |-> "missing", host |-> "", path |-> <<>>]}

ActionHrefs ==
    {[kind |-> "abs", host |-> "date.gov.md", path |-> <<"download", "a.xlsx">>],
     [kind |-> "abs", host |-> "date.gov.md", path |-> <<"download", "b.xlsx">>]}

NoCell == [kind |-> "none"]

IntCell(n) == [kind |-> "int", num |-> n]

StrCell(s) == [kind |-> "str", val |-> s]

CompanyRow(idno, name, address, directors, founders, owners) ==
    [idno |-> idno, name |-> name, address |-> address,
     directors |-> directors, founders |-> founders, owners |-> owners]

\* the data rows of the company sheet
CompanyRows ==
    {CompanyRow(Some(<<"1", "0">>), Some(<<"A", "l", "f", "a">>), Some(<<"C", "h">>),
                Some(<<"A", "n", "a", " ", "[", "D", "i", "r", "]", ",", "I", "o", "n">>),
                StrCell(<<"B", "e", "t", "a", " ", "(", "5", "0", "%", ")", ",", "G", "a", "m">>),
                Some(<<"J", "o", " ", "(", "U", "S", ")">>)),
     CompanyRow(None, Some(<<"B", "e", "t", "a">>), None,
                Some(<<"I", "o", "]", ",", "E", "v", "a">>), NoCell,
                Some(<<"K", "i", " ", "(", "X", "X", ")">>)),
     CompanyRow(None, None, None,
                Some(<<"I", "o", "n">>), StrCell(<<"B", "e", "t", "a">>), None),
     CompanyRow(None, Some(<<>>), Some(<<>>), None, NoCell, None),
     CompanyRow(Some(<<"2", "0">>), None, None, None, IntCell(7), None)}

OrgRow(tax_number, name, director) ==
    [tax_number |-> tax_number, name |-> name, director |-> director]

\* the rows of the organizations sheet
OrgRows ==
    {OrgRow(Some(<<"3", "0">>), Some(<<"N", "g", "o">>), Some(<<"E", "v", "a">>)),
     OrgRow(Some(<<"4", "0">>), Some(<<"O", "n", "g">>), None),
     OrgRow(None, None, Some(<<"I", "o", "n">>)),
     OrgRow(None, Some(<<>>), Some(<<>>))}

D2(n) == <<Digits[(n \div 10) + 1], Digits[(n % 10) + 1]>>

\* "YYYY.MM.DD"
DateText(y, m, d) == D2(y \div 100) \o D2(y % 100) \o <<".">> \o D2(m) \o <<".">> \o D2(d)

Xlsx == <<".", "x", "l", "s", "x">>

\* a resource link that carries a date
Link(y, m, d) == <<"/", "f", "_">> \o DateText(y, m, d) \o Xlsx

UndatedLink == <<"/", "f">> \o Xlsx

StaleLink == <<"/">> \o StaleMarker \o <<"_">> \o DateText(2025, 1, 30) \o Xlsx

Link2019 == Prefix2019 \o <<"0", "5", "/">> \o DateText(2025, 1, 31) \o Xlsx

CsvLink == <<"/", "f", "_">> \o DateText(2025, 1, 31) \o <<".", "c", "s", "v">>

\* the hrefs of the anchors of the nonprofit page
Hrefs ==
    {Link(2025, 1, 15), Link(2024, 7, 2), Link(2025, 1, 20), Link(2025, 1, 2),
     Link(2025, 1, 3), Link(2025, 13, 1), UndatedLink, StaleLink, Link2019, CsvLink}

CrawlHrefs == {Link(2025, 1, 20), Link(2024, 7, 2), Link(2025, 1, 2), UndatedLink}

\* the values of datetime.now()
Nows ==
    {[day |-> Ordinal(2025, 2, 1), secs |-> 0],
     [day |-> Ordinal(2025, 2, 1), secs |-> 43200],
     [day |-> Ordinal(2025, 2, 14), secs |-> 0]}

Workbooks ==
    {[sheetnames |-> {"organizations"}, active |-> "organizations"],
     [sheetnames |-> {"organizations", "Sheet2"}, active |-> "organizations"],
     [sheetnames |-> {"Sheet1"}, active |-> "Sheet1"]}

DirChars == {"a", " ", "[", "]", ","}

\* the company parse_directors is applied to in SpecDirectors
TestCompany == [Make("Company") EXCEPT !.id = Some(<<"oc-companies-md-", "1">>)]

NONPROFITS_URL == [host |-> "dataset.gov.md", path |-> <<"dataset", "18516">>]

-----------------------------------------------------------------------------
(* crawl                                                                   *)

Init ==
    /\ pc = "read_ckan"
    /\ fetched = <<>>
    /\ exported = <<>>
    /\ emitted = <<>>
    /\ data_url = None
    /\ headers = FALSE
    /\ idx = 0
    /\ call = [op |-> "crawl"]

\* line 259
ReadCkan ==
    /\ pc = "read_ckan"
    /\ \E url \in DatasetUrls, catalog \in SeqsUpTo(ResourceHrefs, MaxAnchors),
          resource \in SeqsUpTo(ActionHrefs, MaxAnchors) :
         LET r == read_ckan(url, catalog, resource)
         IN  /\ fetched' = fetched \o r.fetches
             /\ data_url' = r.href
             /\ pc' = IF r.kind = "return" THEN "fetch_data" ELSE "failed"
             /\ call' = [op |-> "read_ckan", url |-> url, catalog |-> catalog,
                         resource |-> resource, out |-> r]
    /\ UNCHANGED <<exported, emitted, headers, idx>>

\* lines 260-262 and 173-174
FetchData ==
    /\ pc = "fetch_data"
    /\ fetched' = Append(fetched, [name |-> "data.xlsx", url |-> Val(data_url)])
    /\ pc' = "companies"
    /\ headers' = FALSE
    /\ idx' = 0
    /\ call' = [op |-> "fetch_resource"]
    /\ UNCHANGED <<exported, emitted, data_url>>

\* lines 174-182: a row read before the header row was found
HeaderRow ==
    /\ pc = "companies"
    /\ ~headers
    /\ idx < MaxSheetRows
    /\ \E found \in BOOLEAN :
         /\ headers' = found
         /\ call' = [op |-> "header", found |-> found]
    /\ idx' = idx + 1
    /\ UNCHANGED <<pc, fetched, exported, emitted, data_url>>

\* lines 183-186: a row read after the header row
DataRow ==
    /\ pc = "companies"
    /\ headers
    /\ idx < MaxSheetRows
    /\ \E data \in CompanyRows :
         LET r == parse_company(data)
         IN  /\ emitted' = emitted \o r.emits
             /\ pc' = IF r.raised THEN "failed" ELSE "companies"
             /\ call' = [op |-> "parse_company", data |-> data, out |-> r,
                         log |-> r.log \o (IF idx > 0 /\ idx % 10000 = 0
                                           THEN <<"info">> ELSE <<>>)]
    /\ idx' = idx + 1
    /\ UNCHANGED <<fetched, exported, data_url, headers>>

\* lines 174 and 266: the sheet is exhausted, the nonprofit page is fetched
FetchHtml ==
    /\ pc = "companies"
    /\ \E doc \in SeqsUpTo(CrawlHrefs, MaxLinks) :
         call' = [op |-> "fetch_html", doc |-> doc]
    /\ fetched' = Append(fetched, [name |-> "html", url |-> NONPROFITS_URL])
    /\ pc' = "select"
    /\ UNCHANGED <<exported, emitted, data_url, headers, idx>>

\* line 267
SelectLink ==
    /\ pc = "select"
    /\ \E now \in Nows :
         LET r == get_most_recent_link(call.doc, now)
         IN  /\ data_url' = r.href
             /\ pc' = IF r.kind = "return" THEN "fetch_list" ELSE "failed"
             /\ call' = [op |-> "get_most_recent_link", doc |-> call.doc,
                         now |-> now, out |-> r]
    /\ UNCHANGED <<fetched, exported, emitted, headers, idx>>

\* line 268
FetchList ==
    /\ pc = "fetch_list"
    /\ fetched' = Append(fetched, [name |-> "list.xlsx", url |-> Val(data_url)])
    /\ pc' = "export"
    /\ call' = [op |-> "fetch_resource"]
    /\ UNCHANGED <<exported, emitted, data_url, headers, idx>>

\* line 269
Export ==
    /\ pc = "export"
    /\ exported' = Append(exported, "list.xlsx")
    /\ pc' = "load"
    /\ call' = [op |-> "export_resource"]
    /\ UNCHANGED <<fetched, emitted, data_url, headers, idx>>

SheetsHoldActive(wb) == wb.active \in wb.sheetnames

\* line 271: the workbook has one sheet, the active one
SheetsAsExpected(wb) == wb.sheetnames = {wb.active}

\* lines 270-273
LoadWorkbook ==
    /\ pc = "load"
    /\ \E wb \in Workbooks :
         /\ pc' = IF SheetsAsExpected(wb) /\ "organizations" \in wb.sheetnames
                  THEN "nonprofits" ELSE "failed"
         /\ call' = [op |-> "load_workbook", wb |-> wb]
    /\ idx' = 0
    /\ UNCHANGED <<fetched, exported, emitted, data_url, headers>>

\* lines 272-275: one row of the organizations sheet
CrawlRow ==
    /\ pc = "nonprofits"
    /\ idx < MaxOrgRows
    /\ \E row \in OrgRows :
         /\ emitted' = emitted \o crawl_row(row)
         /\ call' = [op |-> "crawl_row", row |-> row, emits |-> crawl_row(row)]
    /\ idx' = idx + 1
    /\ UNCHANGED <<pc, fetched, exported, data_url, headers>>

\* line 272: the sheet is exhausted and crawl returns
Finish ==
    /\ pc = "nonprofits"
    /\ pc' = "done"
    /\ call' = [op |-> "return"]
    /\ UNCHANGED <<fetched, exported, emitted, data_url, headers, idx>>

Next ==
    \/ ReadCkan
    \/ FetchData
    \/ HeaderRow
    \/ DataRow
    \/ FetchHtml
    \/ SelectLink
    \/ FetchList
    \/ Export
    \/ LoadWorkbook
    \/ CrawlRow
    \/ Finish

Spec == Init /\ [][Next]_vars

-----------------------------------------------------------------------------
(* get_most_recent_link on every page of at most MaxLinks anchors          *)

InitLinks ==
    /\ pc = "select"
    /\ fetched = <<[name |-> "html", url |-> NONPROFITS_URL]>>
    /\ exported = <<>>
    /\ emitted = <<>>
    /\ data_url = None
    /\ headers = FALSE
    /\ idx = 0
    /\ \E doc \in SeqsUpTo(Hrefs, MaxLinks) : call = [op |-> "fetch_html", doc |-> doc]

NextLinks == SelectLink

SpecLinks == InitLinks /\ [][NextLinks]_vars

-----------------------------------------------------------------------------
(* parse_directors on every cell of at most MaxDirLen characters           *)

InitDirectors ==
    /\ pc = "parse_directors"
    /\ fetched = <<>>
    /\ exported = <<>>
    /\ emitted = <<>>
    /\ data_url = None
    /\ headers = TRUE
    /\ idx = 0
    /\ \E directors \in {None} \cup {Some(s) : s \in SeqsUpTo(DirChars, MaxDirLen)} :
         call = [op |-> "cell", directors |-> directors]

\* line 164
ParseDirectors ==
    /\ pc = "parse_directors"
    /\ emitted' = emitted \o parse_directors(TestCompany, call.directors)
    /\ call' = [op |-> "parse_directors", directors |-> call.directors]
    /\ pc' = "parse_founders"
    /\ UNCHANGED <<fetched, exported, data_url, headers, idx>>

NextDirectors == ParseDirectors

SpecDirectors == InitDirectors /\ [][NextDirectors]_vars

-----------------------------------------------------------------------------
(* Properties                                                              *)

\* the entities the last row handed to the sink: the end of the stream
LastRow(n) == SubSeq(emitted, Len(emitted) - n + 1, Len(emitted))

\* a company row from which no identity can be derived: no idno, and
\* neither a name nor an address to hash
NoIdentity(data) ==
    /\ IsNone(data.idno)
    /\ IsNone(data.name) \/ Val(data.name) = <<>>
    /\ IsNone(data.address) \/ Val(data.address) = <<>>

Related == {"LegalEntity", "Directorship", "Ownership"}

\* C1 as stated: in parse_company, for every row whose identity can be
\* derived, the Company is emitted before every LegalEntity, Directorship
\* and Ownership of that row.
C1_CompanyEmittedFirst ==
    (call.op = "parse_company" /\ ~NoIdentity(call.data)) =>
        LET row == LastRow(Len(call.out.emits))
        IN  \A i \in 1..Len(row) :
               row[i].schema \in Related =>
                  \E j \in 1..(i - 1) : row[j].schema = "Company"

\* C1 amended: in parse_company, for every row whose identity can be
\* derived, exactly one Company is emitted and it is emitted last, after
\* every LegalEntity, Directorship and Ownership of that row.
C1_CompanyEmittedLast ==
    (call.op = "parse_company" /\ ~NoIdentity(call.data)) =>
        LET row == LastRow(Len(call.out.emits))
        IN  /\ Len(row) >= 1
            /\ row[Len(row)].schema = "Company"
            /\ \A i \in 1..(Len(row) - 1) : row[i].schema \in Related

\* a row with directors, founders and owners has been parsed
C1_Witness ==
    /\ call.op = "parse_company"
    /\ ~NoIdentity(call.data)
    /\ Len(call.out.emits) >= 7
    /\ emitted[Len(emitted)].schema = "Company"
    /\ LastRow(Len(call.out.emits))[1].schema = "LegalEntity"

Feb1(now) == now.day = Ordinal(2025, 2, 1)

\* the two links of the first example, in either order
C2_FirstPages ==
    {<<Link(2025, 1, 15), Link(2024, 7, 2)>>, <<Link(2024, 7, 2), Link(2025, 1, 15)>>}

\* pages whose latest date is 2025-01-20
C2_SecondPages ==
    {<<Link(2025, 1, 20), Link(2024, 7, 2)>>, <<Link(2024, 7, 2), Link(2025, 1, 20)>>,
     <<Link(2025, 1, 20)>>, <<Link(2025, 1, 15), Link(2025, 1, 20)>>}

\* C2 as stated: with links dated 2025-01-15 and 2024-07-02 on 2025-02-01,
\* get_most_recent_link raises an assertion failure; with a latest date of
\* 2025-01-20 on 2025-02-01 it returns the 2025-01-20 link.
C2_RaisesOnJan15 ==
    (call.op = "get_most_recent_link" /\ Feb1(call.now)) =>
        /\ call.doc \in C2_FirstPages =>
              call.out.kind = "AssertionError" /\ pc = "failed"
        /\ call.doc \in C2_SecondPages =>
              /\ call.out.kind = "return"
              /\ data_url = Some(Link(2025, 1, 20))

\* C2 amended: with links dated 2025-01-15 and 2024-07-02 on 2025-02-01,
\* get_most_recent_link returns the 2025-01-15 link (17 days old, so the
\* assertion passes); with a latest date of 2025-01-20 on 2025-02-01 it
\* returns the 2025-01-20 link.
C2_ReturnsJan15 ==
    (call.op = "get_most_recent_link" /\ Feb1(call.now)) =>
        /\ call.doc \in C2_FirstPages =>
              /\ call.out.kind = "return"
              /\ data_url = Some(Link(2025, 1, 15))
              /\ pc = "fetch_list"
        /\ call.doc \in C2_SecondPages =>
              /\ call.out.kind = "return"
              /\ data_url = Some(Link(2025, 1, 20))
              /\ pc = "fetch_list"

\* the selector has run on the two links of the first example on 2025-02-01
C2_Witness ==
    /\ call.op = "get_most_recent_link"
    /\ Feb1(call.now)
    /\ call.doc = <<Link(2025, 1, 15), Link(2024, 7, 2)>>
    /\ pc = "fetch_list"

\* the positions of the .xlsx links of a page that are not excluded and
\* carry a date
Candidates(doc) ==
    {i \in 1..Len(doc) :
        /\ Contains(doc[i], Xlsx)
        /\ ~Contains(doc[i], StaleMarker)
        /\ ~Matches2019(doc[i])
        /\ ~IsNone(DateMatch(doc[i]))}

\* the day a candidate's date stands for
DayOf(href) == Val(Strptime(Val(DateMatch(href)))).day

\* a page without its .xlsx links that carry no date
WithoutUndated(doc) ==
    SelectSeq(doc, LAMBDA h : ~(Contains(h, Xlsx) /\ IsNone(DateMatch(h))))

\* C3: when get_most_recent_link returns, the href is that of a candidate
\* (dated, not excluded) whose date is the maximum among the candidates; a
\* link with the stale marker or under resources/2019-NN is never returned,
\* a link without a date is never returned, and removing the links without
\* a date from the page changes neither the outcome nor the href.
C3_MaxDatedLink ==
    call.op = "get_most_recent_link" =>
        /\ call.out.kind = "return" =>
              /\ \E i \in Candidates(call.doc) :
                    /\ call.doc[i] = Val(data_url)
                    /\ \A j \in Candidates(call.doc) :
                          DayOf(call.doc[j]) <= DayOf(call.doc[i])
              /\ ~Contains(Val(data_url), StaleMarker)
              /\ ~Matches2019(Val(data_url))
              /\ ~IsNone(DateMatch(Val(data_url)))
        /\ LET other == get_most_recent_link(WithoutUndated(call.doc), call.now)
           IN  other.kind = call.out.kind /\ other.href = data_url

\* the selector has returned from a page on which an excluded link carries
\* the latest date
C3_Witness ==
    /\ call.op = "get_most_recent_link"
    /\ call.out.kind = "return"
    /\ \E i \in 1..Len(call.doc) :
          /\ Contains(call.doc[i], StaleMarker)
          /\ DayOf(call.doc[i]) > DayOf(Val(data_url))


Schemas(stream) == {stream[i].schema : i \in 1..Len(stream)}

FetchedNames == {fetched[i].name : i \in 1..Len(fetched)}

\* the latest day among the candidates of a page
LatestDay(doc) ==
    CHOOSE d \in {DayOf(doc[i]) : i \in Candidates(doc)} :
        \A i \in Candidates(doc) : DayOf(doc[i]) <= d

\* the seconds from midnight of day d to now
AgeSeconds(now, d) == (now.day - d) * 86400 + now.secs

\* C4: get_most_recent_link returns a link only if the latest date is not
\* more than 30 days before now; whenever that date is more than 30 days in
\* the past, or the page has no dated candidate, it raises and returns no
\* link, and the run ends there: list.xlsx is not fetched, nothing is
\* exported and no Organization is emitted.
C4_RecentOrAbort ==
    call.op = "get_most_recent_link" =>
        /\ call.out.kind = "return" =>
              /\ Candidates(call.doc) # {}
              /\ AgeSeconds(call.now, LatestDay(call.doc)) <= 30 * 86400
              /\ ~IsNone(data_url)
              /\ pc = "fetch_list"
        /\ (\/ Candidates(call.doc) = {}
            \/ AgeSeconds(call.now, LatestDay(call.doc)) > 30 * 86400) =>
              /\ call.out.kind \in {"AssertionError", "ValueError"}
              /\ IsNone(data_url)
              /\ pc = "failed"
              /\ ~ENABLED Next
              /\ "list.xlsx" \notin FetchedNames
              /\ exported = <<>>
              /\ "Organization" \notin Schemas(emitted)

\* the selector has refused a page whose latest link is too old, after the
\* company sheet was parsed
C4_Witness ==
    /\ call.op = "get_most_recent_link"
    /\ call.out.kind = "AssertionError"
    /\ Candidates(call.doc) # {}
    /\ pc = "failed"
    /\ "Company" \in Schemas(emitted)

\* C5: every Company and every Organization of the emitted stream has an
\* identity (an id that is not None).
C5_EmittedHaveIdentity ==
    \A i \in 1..Len(emitted) :
        emitted[i].schema \in {"Company", "Organization"} => ~IsNone(emitted[i].id)

\* the ids of the entities of the given schemas in a stream
IdsOf(stream, schemas) ==
    {stream[i].id : i \in {j \in 1..Len(stream) : stream[j].schema \in schemas}}

\* the step is parse_company on one data row
IsCompanyRowStep == pc = "companies" /\ headers /\ call'.op = "parse_company"

\* C6: parse_company on a row without a derivable identity logs an error,
\* emits nothing and raises nothing, and parse_companies stays in its loop
\* at the next row; a row with an identity appends its entities, the
\* Company with that identity among them, to what the earlier rows emitted.
C6_SkipRowAndContinue ==
    [][IsCompanyRowStep =>
         /\ idx' = idx + 1
         /\ pc' = "companies"
         /\ ~call'.out.raised
         /\ IF NoIdentity(call'.data)
            THEN /\ emitted' = emitted
                 /\ "error" \in {call'.log[i] : i \in 1..Len(call'.log)}
            ELSE /\ Len(emitted') > Len(emitted)
                 /\ SubSeq(emitted', 1, Len(emitted)) = emitted
                 /\ "Company" \in Schemas(SubSeq(emitted', Len(emitted) + 1, Len(emitted')))
                 /\ "error" \notin {call'.log[i] : i \in 1..Len(call'.log)}]_vars

\* a row with an identity has been emitted after a row without one was
\* skipped (the header row and two data rows were read, and only the last
\* row emitted anything)
C6_Witness ==
    /\ call.op = "parse_company"
    /\ ~NoIdentity(call.data)
    /\ idx = 3
    /\ Len(emitted) = Len(call.out.emits)
    /\ Len(emitted) > 0

\* the entities the last row emitted
RowEntities ==
    IF call.op = "parse_company" THEN LastRow(Len(call.out.emits))
    ELSE IF call.op = "crawl_row" THEN LastRow(Len(call.emits))
    ELSE <<>>

\* C7: after a row of either parser, every Directorship it emitted names an
\* organization and a director, and every Ownership an asset and an owner,
\* each the id of an entity emitted for that same row.
C7_ReferencesEmitted ==
    LET row == RowEntities
    IN  \A i \in 1..Len(row) :
           /\ row[i].schema = "Directorship" =>
                 /\ ~IsNone(row[i].organization)
                 /\ row[i].organization \in IdsOf(row, {"Company", "Organization"})
                 /\ ~IsNone(row[i].director)
                 /\ row[i].director \in IdsOf(row, {"LegalEntity", "Person"})
           /\ row[i].schema = "Ownership" =>
                 /\ ~IsNone(row[i].asset)
                 /\ row[i].asset \in IdsOf(row, {"Company"})
                 /\ ~IsNone(row[i].owner)
                 /\ row[i].owner \in IdsOf(row, {"LegalEntity"})


\* the candidates of a director cell
Pieces(directors) == Split(Val(directors), <<"]", ",">>)

\* the names of the candidates that are kept: those of at least 3
\* characters once the role is split off and the rest trimmed
RECURSIVE KeptNames(_)
KeptNames(pieces) ==
    IF Len(pieces) = 0 THEN <<>>
    ELSE (IF Len(DirectorSplit(Head(pieces)).director) >= 3
          THEN <<DirectorSplit(Head(pieces)).director>> ELSE <<>>)
            \o KeptNames(Tail(pieces))

\* C8: parse_directors emits nothing for a candidate shorter than 3
\* characters after trimming, and still emits the other candidates of the
\* cell: the stream is one LegalEntity and one Directorship for each
\* candidate whose name has at least 3 characters, in the order of the
\* cell, and no emitted name is shorter than 3 characters.
C8_ShortCandidateSkipped ==
    (call.op = "parse_directors" /\ ~IsNone(call.directors)) =>
        LET pieces == Pieces(call.directors)
            kept   == KeptNames(pieces)
        IN  /\ \A p \in 1..Len(pieces) :
                  Len(Strip(pieces[p])) < 3 =>
                     \A i \in 1..Len(emitted) :
                        emitted[i].name # Some(Strip(pieces[p]))
            /\ Len(emitted) = 2 * Len(kept)
            /\ \A k \in 1..Len(kept) :
                  /\ emitted[2 * k - 1].schema = "LegalEntity"
                  /\ emitted[2 * k - 1].name = Some(kept[k])
                  /\ Len(kept[k]) >= 3
                  /\ emitted[2 * k].schema = "Directorship"
                  /\ emitted[2 * k].director = emitted[2 * k - 1].id

\* a cell with a short candidate before a candidate that is emitted
C8_Witness ==
    /\ call.op = "parse_directors"
    /\ ~IsNone(call.directors)
    /\ Len(Pieces(call.directors)) = 2
    /\ Len(Strip(Pieces(call.directors)[1])) \in 1..2
    /\ Len(emitted) = 2

\* the URL the hrefs of ResourceHrefs stand for on the catalog page
Resolved(href) ==
    IF href.kind = "rel"
    THEN [host |-> "date.gov.md", path |-> <<"ckan", "dataset", "resource", "r1">>]
    ELSE IF href.kind = "root"
    THEN [host |-> "date.gov.md", path |-> <<"r2">>]
    ELSE CatalogUrl

\* C9: read_ckan raises if the catalog page has no resource anchor or the
\* resource page has no action anchor; otherwise it has fetched exactly the
\* catalog page and then the resource page its (last) resource anchor
\* resolves to, and returns the href of the first action anchor.
C9_ReadCkan ==
    (call.op = "read_ckan" /\ ~IsNone(call.url)) =>
        /\ Len(call.catalog) = 0 =>
              /\ call.out.kind = "RuntimeError"
              /\ pc = "failed"
              /\ IsNone(data_url)
              /\ fetched = <<[name |-> "dataset.html", url |-> Val(call.url)]>>
        /\ (Len(call.catalog) > 0 /\ Len(call.resource) = 0) =>
              /\ call.out.kind = "RuntimeError"
              /\ pc = "failed"
              /\ IsNone(data_url)
        /\ (Len(call.catalog) > 0 /\ Len(call.resource) > 0) =>
              /\ call.out.kind = "return"
              /\ pc = "fetch_data"
              /\ data_url = Some(call.resource[1])
        /\ Len(call.catalog) > 0 =>
              fetched = <<[name |-> "dataset.html", url |-> Val(call.url)],
                          [name |-> "resource.html",
                           url |-> Resolved(call.catalog[Len(call.catalog)])]>>

\* read_ckan has returned from a resource page with two different action
\* anchors, reached through a relative href
C9_Witness ==
    /\ call.op = "read_ckan"
    /\ call.out.kind = "return"
    /\ Len(call.resource) = 2
    /\ call.resource[1] # call.resource[2]
    /\ call.catalog[Len(call.catalog)].kind = "rel"

NonprofitSchemas == {"Person", "Directorship", "Organization"}

CompanySchemas == {"Company", "LegalEntity", "Directorship", "Ownership"}

\* the schemas of what a step appended to the stream
Appended == Schemas(SubSeq(emitted', Len(emitted) + 1, Len(emitted')))

\* C10: the stream only grows; company rows are parsed only before the
\* nonprofit page is fetched and nonprofit rows only after; a failure of
\* the nonprofit phase leaves the stream as the company phase left it;
\* list.xlsx is exported before the sheet names are checked, and an
\* Organization is emitted only once that check has passed.
C10_TwoPhases ==
    [][/\ Len(emitted') >= Len(emitted)
       /\ SubSeq(emitted', 1, Len(emitted)) = emitted
       /\ "html" \notin FetchedNames => Appended \subseteq CompanySchemas
       /\ "html" \in FetchedNames => Appended \subseteq NonprofitSchemas
       /\ call'.op = "parse_company" => "html" \notin {fetched'[i].name : i \in 1..Len(fetched')}
       /\ ("html" \in FetchedNames /\ pc' = "failed") => emitted' = emitted
       /\ call'.op = "load_workbook" =>
             /\ exported = <<"list.xlsx">>
             /\ exported' = exported
             /\ pc' = "nonprofits" =>
                   /\ Cardinality(call'.wb.sheetnames) = 1
                   /\ call'.wb.active \in call'.wb.sheetnames
             /\ pc' # "nonprofits" => pc' = "failed"
       /\ "Organization" \in Appended =>
             /\ pc = "nonprofits"
             /\ exported = <<"list.xlsx">>]_vars

\* the sheet-name check has failed after the file was exported, with the
\* company entities in the stream
C10_Witness ==
    /\ call.op = "load_workbook"
    /\ pc = "failed"
    /\ exported = <<"list.xlsx">>
    /\ Cardinality(call.wb.sheetnames) = 2
    /\ "Company" \in Schemas(emitted)

====
